---- MODULE Spec2Model ----
(***************************************************************************)
(* Ghostfolio integration: the authenticating API client (api.py) and the  *)
(* refresh coordinator (__init__.py), as a state machine.                  *)
(*                                                                         *)
(* One client object is shared by every call.  A call of                   *)
(* get_portfolio_performance is a coroutine that suspends at each network  *)
(* request; one action of the model is the code between two suspensions.  *)
(* The server and the network are the environment: every reply (a status   *)
(* with a body, or a transport failure) is chosen nondeterministically.    *)
(***************************************************************************)
EXTENDS Integers, Sequences, FiniteSets, TLC

----------------------------------------------------------------------------
(* Bounds of the model. *)

\* longest configured range list
MaxCfgLen == 3
\* refresh cycles the host runs
MaxCycles == 2
\* tokens the server issues (each successful auth exchange issues a fresh one)
MaxTokens == 4
\* direct authenticate() calls of the host (config validation)
MaxDirectAuth == 1

----------------------------------------------------------------------------
(* Values. *)

\* Python's None, where the value is otherwise a string
None == "None"

\* self.auth_token = None: tokens are 1, 2, ... and 0 is "no token held"
NoToken == 0

\* const.py: DEFAULT_PERFORMANCE_RANGES = ["max"]
DEFAULT_PERFORMANCE_RANGES == <<"max">>

\* const.py: the range identifiers the configuration offers
PERFORMANCE_RANGE_OPTIONS == {"1d", "wtd", "mtd", "ytd", "1y", "max"}

\* statuses the auth endpoint answers with
AuthStatuses == {200, 201, 403}

\* statuses the performance endpoint answers with
GetStatuses == {200, 401, 500}

\* transport-level failures of one request
TransportKinds == {"dns", "tls", "timeout"}

\* response bodies of a 200 performance GET (opaque JSON objects)
Bodies == {"bodyA", "bodyB"}

\* A reply to one request: a transport failure, or a status with its body.
Replies(statuses) ==
    [transport : TransportKinds, status : {0}, body : {None}]
    \cup [transport : {None}, status : statuses \ {200}, body : {None}]
    \cup [transport : {None}, status : statuses \cap {200}, body : Bodies]

----------------------------------------------------------------------------
(* Exceptions. *)

NoErr == [cls |-> None, msg |-> None, status |-> 0, cause |-> None]

\* The exception aiohttp raises for a transport failure, by the class an
\* except clause can catch it as.  DNS and TLS failures raise subclasses of
\* aiohttp.ClientError (ClientConnectorError, ClientConnectorSSLError).  The
\* session is built with ClientTimeout(total=30): when the total timeout
\* expires aiohttp raises asyncio.TimeoutError, which is no ClientError.
TransportException(kind) ==
    [cls |-> IF kind \in {"dns", "tls"}
             THEN "aiohttp.ClientError" ELSE "asyncio.TimeoutError",
     msg |-> None, status |-> 0, cause |-> None]

\* isinstance(err, aiohttp.ClientError)
IsClientError(e) == e.cls = "aiohttp.ClientError"

\* except aiohttp.ClientError as err:
\*     raise GhostfolioAPIError(f"Connection error: {err}") from err
\* Every other exception passes through the handler unchanged.
ExceptClientError(e) ==
    IF IsClientError(e)
    THEN [cls |-> "GhostfolioAPIError", msg |-> "Connection error",
          status |-> 0, cause |-> e.cls]
    ELSE e

\* raise GhostfolioAuthError(f"Authentication failed: {response.status}")
GhostfolioAuthError(status) ==
    [cls |-> "GhostfolioAuthError", msg |-> "Authentication failed",
     status |-> status, cause |-> None]

\* raise GhostfolioAPIError(f"API request failed: {response.status}")
GhostfolioAPIError(status) ==
    [cls |-> "GhostfolioAPIError", msg |-> "API request failed",
     status |-> status, cause |-> None]

----------------------------------------------------------------------------
(* Coordinator construction. *)

\* list(dict.fromkeys(s)): first occurrences, in order
RECURSIVE DictFromKeys(_)
DictFromKeys(s) ==
    IF s = <<>> THEN <<>>
    ELSE LET r == DictFromKeys(SubSeq(s, 1, Len(s) - 1))
             x == s[Len(s)]
         IN IF \E i \in 1..Len(r) : r[i] = x THEN r ELSE Append(r, x)

\* entry.data.get(CONF_PERFORMANCE_RANGES, DEFAULT_PERFORMANCE_RANGES)
EntryRanges(cfg) ==
    IF cfg.present THEN cfg.val ELSE DEFAULT_PERFORMANCE_RANGES

\* (variant) the range list taken as configured, repetitions kept
CoordinatorRangesRaw(performance_ranges) ==
    IF performance_ranges = <<>>
    THEN DEFAULT_PERFORMANCE_RANGES
    ELSE performance_ranges

\* self.ranges = list(dict.fromkeys(performance_ranges or DEFAULT_PERFORMANCE_RANGES))
CoordinatorRanges(performance_ranges) ==
    DictFromKeys(IF performance_ranges = <<>>
                 THEN DEFAULT_PERFORMANCE_RANGES
                 ELSE performance_ranges)

\* sequences over S of length at most n
SeqsUpTo(S, n) == UNION {[1..k -> S] : k \in 0..n}

\* the configurations the host may hand over: the key missing, or a list
Configurations ==
    {[present |-> FALSE, val |-> <<>>]}
    \cup {[present |-> TRUE, val |-> s] :
              s \in SeqsUpTo(PERFORMANCE_RANGE_OPTIONS, MaxCfgLen)}

\* the configurations the client and the refresh are run under: one range (the
\* default) and two ranges with a repetition
RunConfigurations ==
    {[present |-> FALSE, val |-> <<>>],
     [present |-> TRUE, val |-> <<"max", "1y", "max">>]}

----------------------------------------------------------------------------
(* The API client (api.py). *)

\* _get_session(): a new session when none is held or the held one is closed
GetSession(s) == IF s \in {"none", "closed"} THEN "open" ELSE s

\* (variant) close() without the guard: closing a session that was never
\* opened raises
CloseSessionUnguarded(s) ==
    IF s = "none"
    THEN [session |-> s, raised |-> TRUE]
    ELSE [session |-> "closed", raised |-> FALSE]

\* close(): if self._session and not self._session.closed: close it.
\* The session afterwards, and whether the call raised.
CloseSession(s) ==
    IF s = "open"
    THEN [session |-> "closed", raised |-> FALSE]
    ELSE [session |-> s, raised |-> FALSE]

\* (variant) authenticate() that drops the stored token when it is rejected
AuthenticateClears(tok, reply, fresh) ==
    IF reply.transport # None
    THEN [token |-> tok, ret |-> NoToken,
          err |-> ExceptClientError(TransportException(reply.transport))]
    ELSE IF reply.status \in {200, 201}
    THEN [token |-> fresh, ret |-> fresh, err |-> NoErr]
    ELSE [token |-> NoToken, ret |-> NoToken,
          err |-> GhostfolioAuthError(reply.status)]

\* authenticate(), from the reply to its POST on: the token stored afterwards,
\* the value returned and the exception raised (NoErr when it returns).
\* tok is self.auth_token before; fresh is the authToken of a 200/201 body.
Authenticate(tok, reply, fresh) ==
    IF reply.transport # None
    THEN [token |-> tok, ret |-> NoToken,
          err |-> ExceptClientError(TransportException(reply.transport))]
    ELSE IF reply.status \in {200, 201}
    THEN [token |-> fresh, ret |-> fresh, err |-> NoErr]
    ELSE [token |-> tok, ret |-> NoToken,
          err |-> GhostfolioAuthError(reply.status)]

\* One call of get_portfolio_performance(range_param).  What the code holds:
\*   pc           where the coroutine is suspended: "new" (scheduled),
\*                "lazy_auth", "get1", "reauth", "get2" (a request is in
\*                flight), "done"
\*   headers      the bearer token in the local variable headers
\*   ret, err     the value returned / the exception raised
\* and what an observer of the call has seen (set by Observe, never read by
\* the code):
\*   hdr1, hdr2   the bearer token the first GET and the retry were sent with
\*   gets         performance GETs sent
\*   lazy         authentications begun before the first GET
\*   reauths      re-authentications begun after a 401
\*   st1, st2     the statuses the first GET and the retry were answered with
\*   body         the body of the last 200 response received
\*   issued       the token the server issued in the call's last successful
\*                auth exchange
\*   transport    the transport failure of the last request, if it had one
\*   rejected     the call's last auth exchange was answered with a status
\*                other than 200 and 201
\*   tokPre       self.auth_token when the call's last auth exchange began
\*   tokEnd       self.auth_token when the call ended
NewCall(range_param) ==
    [pc |-> "new", range |-> range_param, headers |-> NoToken,
     ret |-> None, err |-> NoErr,
     hdr1 |-> NoToken, hdr2 |-> NoToken, gets |-> 0, lazy |-> 0, reauths |-> 0,
     st1 |-> 0, st2 |-> 0, body |-> None, issued |-> NoToken,
     transport |-> None, rejected |-> FALSE,
     tokPre |-> NoToken, tokEnd |-> NoToken]

\* the call ends by raising e
Raise(c, e) == [c EXCEPT !.pc = "done", !.err = e]

\* the call ends by returning data
Return(c, data) == [c EXCEPT !.pc = "done", !.ret = data]

\* headers = {"Authorization": f"Bearer {self.auth_token}"}, then the first GET
SendFirstGet(c, tok) == [c EXCEPT !.pc = "get1", !.headers = tok]

\* (variant) the retry GET sent with the headers of the first GET
SendRetryGetStale(c, tok) == [c EXCEPT !.pc = "get2"]

\* headers = {"Authorization": f"Bearer {self.auth_token}"}, then the retry GET
SendRetryGet(c, tok) == [c EXCEPT !.pc = "get2", !.headers = tok]

\* (variant) the first GET sent at once, whether a token is held or not
StartCallNoAuth(c, tok) == SendFirstGet(c, tok)

\* if not self.auth_token: await self.authenticate()    (the POST is sent)
\* otherwise the first GET is sent with the token held
StartCall(c, tok) ==
    IF tok = NoToken
    THEN [c EXCEPT !.pc = "lazy_auth"]
    ELSE SendFirstGet(c, tok)

\* (variant) the first GET sent after the lazy authenticate() whatever it did
OnLazyAuthReplyProceeds(c, tok, reply, fresh) ==
    SendFirstGet(c, Authenticate(tok, reply, fresh).token)

\* the lazy authenticate() completes: it raises (outside the try block, so the
\* exception leaves the call as it is), or the first GET is sent
OnLazyAuthReply(c, tok, reply, fresh) ==
    LET a == Authenticate(tok, reply, fresh)
    IN IF a.err # NoErr
       THEN Raise(c, a.err)
       ELSE SendFirstGet(c, a.token)

\* the first GET completes
OnFirstGetReply(c, reply) ==
    IF reply.transport # None
    THEN Raise(c, ExceptClientError(TransportException(reply.transport)))
    ELSE IF reply.status = 200
    THEN Return(c, reply.body)
    ELSE IF reply.status = 401
    THEN [c EXCEPT !.pc = "reauth"]
    ELSE Raise(c, ExceptClientError(GhostfolioAPIError(reply.status)))

\* the re-authentication completes: inside the try block, so what it raises
\* passes the except aiohttp.ClientError handler; or the retry GET is sent
OnReauthReply(c, tok, reply, fresh) ==
    LET a == Authenticate(tok, reply, fresh)
    IN IF a.err # NoErr
       THEN Raise(c, ExceptClientError(a.err))
       ELSE SendRetryGet(c, a.token)

\* (variant) the retry answered 401 re-authenticates again instead of failing
OnRetryGetReplyAgain(c, reply) ==
    IF reply.transport # None
    THEN Raise(c, ExceptClientError(TransportException(reply.transport)))
    ELSE IF reply.status = 200
    THEN Return(c, reply.body)
    ELSE IF reply.status = 401
    THEN [c EXCEPT !.pc = "reauth"]
    ELSE Raise(c, ExceptClientError(GhostfolioAPIError(reply.status)))

\* the retry GET completes
OnRetryGetReply(c, reply) ==
    IF reply.transport # None
    THEN Raise(c, ExceptClientError(TransportException(reply.transport)))
    ELSE IF reply.status = 200
    THEN Return(c, reply.body)
    ELSE Raise(c, ExceptClientError(GhostfolioAPIError(reply.status)))

\* no reply: the step was not the arrival of one
NoReply == [transport |-> None, status |-> 0, body |-> None]

\* The observer's record of one step of a call: old is the call before the
\* step, new the call as the code left it, reply the reply that arrived,
\* tokBefore and tokAfter self.auth_token around the step, fresh the token the
\* server had to issue.
Observe(old, new, reply, tokBefore, tokAfter, fresh) ==
    LET moved == new.pc # old.pc
        authOk == /\ old.pc \in {"lazy_auth", "reauth"}
                  /\ reply.transport = None
                  /\ reply.status \in {200, 201}
    IN [new EXCEPT
          !.gets = IF moved /\ new.pc \in {"get1", "get2"} THEN @ + 1 ELSE @,
          !.hdr1 = IF moved /\ new.pc = "get1" THEN new.headers ELSE @,
          !.hdr2 = IF moved /\ new.pc = "get2" THEN new.headers ELSE @,
          !.lazy = IF moved /\ new.pc = "lazy_auth" THEN @ + 1 ELSE @,
          !.reauths = IF moved /\ new.pc = "reauth" THEN @ + 1 ELSE @,
          !.tokPre = IF moved /\ new.pc \in {"lazy_auth", "reauth"}
                     THEN tokBefore ELSE @,
          !.st1 = IF old.pc = "get1" THEN reply.status ELSE @,
          !.st2 = IF old.pc = "get2" THEN reply.status ELSE @,
          !.body = IF old.pc \in {"get1", "get2"} /\ reply.status = 200
                   THEN reply.body ELSE @,
          !.issued = IF authOk THEN fresh ELSE @,
          !.transport = reply.transport,
          !.rejected = IF old.pc \in {"lazy_auth", "reauth"}
                       THEN reply.transport = None
                            /\ reply.status \notin {200, 201}
                       ELSE @,
          !.tokEnd = IF new.pc = "done" THEN tokAfter ELSE @]

----------------------------------------------------------------------------
(* The refresh coordinator (__init__.py). *)

\* what a GhostfolioAPI object has: the attributes __init__ sets and the
\* methods the class defines
ApiAttributes ==
    {"base_url", "access_token", "verify_ssl", "auth_token", "_session",
     "authenticate", "get_portfolio_performance", "_get_session", "close",
     "__aenter__", "__aexit__"}

\* the coordinator's cache (DataUpdateCoordinator.data) before any refresh
\* has succeeded
NoData ==
    [valid |-> FALSE, base_currency |-> None,
     performance |-> [r \in {} |-> None], firstOrderDate |-> None]

\* raised by the lookup of an attribute the object does not have
AttributeError(name) ==
    [cls |-> "AttributeError", msg |-> name, status |-> 0, cause |-> None]

\* (variant) a refresh that stores what it has so far before it raises
AsyncUpdateDataPartial(cache) ==
    [result |-> "failed", err |-> AttributeError("get_user_settings"),
     cache |-> [cache EXCEPT !.valid = TRUE], value |-> NoData]

\* _async_update_data(), up to its first suspension.  The coroutines of the
\* range fetches are created and the inner asyncio.gather schedules them as
\* tasks; then the argument self.api.get_user_settings() is evaluated.  The
\* lookup of a missing attribute raises before anything is awaited: the
\* refresh ends while every range fetch is still scheduled.  The method
\* assigns nothing to the coordinator: cache is the cache as it leaves it,
\* value what it returns.
AsyncUpdateData(cache) ==
    IF "get_user_settings" \in ApiAttributes
    THEN [result |-> "running", err |-> NoErr, cache |-> cache,
          value |-> NoData]
    ELSE [result |-> "failed", err |-> AttributeError("get_user_settings"),
          cache |-> cache, value |-> NoData]

\* the host's refresh: the cache is replaced by what _async_update_data
\* returns, and kept when it raises
HostStore(outcome) ==
    IF outcome.result = "success" THEN outcome.value ELSE outcome.cache

----------------------------------------------------------------------------
(* _async_update_data() after the fan-in: the merge of the gathered         *)
(* responses into the cache, a function of its inputs.                      *)

Currencies == {None, "USD", "EUR"}
OrderDates == {None, "2020-01-01"}

\* A performance response as the merge reads it.
\*   isDict     isinstance(result, dict)
\*   perf       result.get("performance"): "absent", "notdict" or "dict"
\*   perfCur    the nested object's baseCurrency (None when absent)
\*   cur        the response's own baseCurrency (None when absent)
\*   fod        result.get("firstOrderDate")
\*   id         the position of the fetch the response answered
PerfResults(i) ==
    {[isDict |-> FALSE, perf |-> "absent", perfCur |-> None, cur |-> None,
      fod |-> None, id |-> i]}
    \cup [isDict : {TRUE}, perf : {"absent", "notdict"}, perfCur : {None},
          cur : Currencies, fod : OrderDates, id : {i}]
    \cup [isDict : {TRUE}, perf : {"dict"}, perfCur : Currencies,
          cur : Currencies, fod : OrderDates, id : {i}]

\* The user-settings response as the merge reads it.
\*   isDict     isinstance(user_settings, dict)
\*   settings   user_settings.get("settings", {}): "absent", "notdict" or "dict"
\*   cur        the nested baseCurrency (None when absent)
UserSettings ==
    {[isDict |-> FALSE, settings |-> "absent", cur |-> None]}
    \cup [isDict : {TRUE}, settings : {"absent", "notdict"}, cur : {None}]
    \cup [isDict : {TRUE}, settings : {"dict"}, cur : Currencies]

\* perf = result.get("performance")
\* perf_data = perf if isinstance(perf, dict) else result
PerfData(result) ==
    IF result.perf = "dict"
    THEN [nested |-> TRUE, cur |-> result.perfCur, id |-> result.id]
    ELSE [nested |-> FALSE, cur |-> result.cur, id |-> result.id]

\* performance_by_range[range_param] = perf_data
DictSet(d, k, v) == [x \in DOMAIN d \cup {k} |-> IF x = k THEN v ELSE d[x]]

\* for range_param, result in zip(self.ranges, performance_results, strict=False)
RECURSIVE MergeLoop(_, _, _, _)
MergeLoop(rs, results, i, acc) ==
    IF i > Len(rs) \/ i > Len(results) THEN acc
    ELSE LET result == results[i]
         IN IF ~result.isDict
            THEN MergeLoop(rs, results, i + 1, acc)
            ELSE LET perf_data == PerfData(result)
                 IN MergeLoop(rs, results, i + 1,
                      [valid |-> TRUE,
                       performance |-> DictSet(acc.performance, rs[i], perf_data),
                       firstOrderDate |-> IF acc.firstOrderDate = None
                                          THEN result.fod
                                          ELSE acc.firstOrderDate,
                       base_currency |-> IF acc.base_currency = None
                                         THEN perf_data.cur
                                         ELSE acc.base_currency])

\* (variant) the currency read from the top level of the settings response
SettingsCurrencyFlat(user_settings) == [raised |-> FALSE, cur |-> None]

\* base_currency = user_settings.get("settings", {}).get("baseCurrency")
\* when user_settings is a dict; .get on a value that is no dict raises
SettingsCurrency(user_settings) ==
    IF ~user_settings.isDict THEN [raised |-> FALSE, cur |-> None]
    ELSE IF user_settings.settings = "notdict" THEN [raised |-> TRUE, cur |-> None]
    ELSE [raised |-> FALSE, cur |-> user_settings.cur]

\* lines 95-120: the value returned, or the exception raised
MergeData(rs, performance_results, user_settings) ==
    LET sc == SettingsCurrency(user_settings)
    IN IF sc.raised
       THEN [result |-> "failed", err |-> AttributeError("get"),
             value |-> NoData]
       ELSE [result |-> "success", err |-> NoErr,
             value |-> MergeLoop(rs, performance_results, 1,
                          [valid |-> TRUE, performance |-> [r \in {} |-> None],
                           firstOrderDate |-> None, base_currency |-> sc.cur])]

----------------------------------------------------------------------------
(* State. *)

VARIABLES
    configured,    \* the configuration entry's range list
    ranges,        \* coordinator.ranges
    auth_token,    \* api.auth_token
    session,       \* api._session: "none", "open" or "closed"
    nextTok,       \* the token the server issues next
    calls,         \* the range fetches of the current cycle, by position
    refreshes,     \* refresh cycles started
    lastRefresh,   \* how the last refresh ended
    data,          \* the coordinator's cache
    authCall,      \* the host's direct authenticate() call
    directAuths,   \* direct authenticate() calls started
    lastClose,     \* the session before and after the last close()
    gathered       \* inputs of the merge (used by SpecMerge only)

vars == <<configured, ranges, auth_token, session, nextTok, calls, refreshes,
          lastRefresh, data, authCall, directAuths, lastClose, gathered>>

NoRefresh == [result |-> "none", err |-> NoErr, cache |-> NoData, value |-> NoData]

\* The host's direct authenticate() call: pc ("idle", "posted", "done"), the
\* value returned and the exception raised; and, observed, the token held
\* before and after, the reply's status and transport failure, and the token
\* the server issued.
IdleAuthCall ==
    [pc |-> "idle", ret |-> NoToken, err |-> NoErr,
     tokPre |-> NoToken, tokEnd |-> NoToken, status |-> 0, transport |-> None,
     issued |-> NoToken]

\* no close() yet; otherwise the session before and after the last close(),
\* and whether it raised
NoClose == [called |-> FALSE, pre |-> "none", post |-> "none", raised |-> FALSE]

NoUserSettings == [isDict |-> FALSE, settings |-> "absent", cur |-> None]

NoGathered ==
    [results |-> <<>>, user_settings |-> NoUserSettings, stage |-> "unused"]

Init ==
    /\ configured \in RunConfigurations
    /\ ranges = CoordinatorRanges(EntryRanges(configured))
    /\ auth_token = NoToken
    /\ session = "none"
    /\ nextTok = 1
    /\ calls = <<>>
    /\ refreshes = 0
    /\ lastRefresh = NoRefresh
    /\ data = NoData
    /\ authCall = IdleAuthCall
    /\ directAuths = 0
    /\ lastClose = NoClose
    /\ gathered = NoGathered

\* the replies the auth endpoint may give now: a 200/201 needs a fresh token
AuthReplies ==
    {r \in Replies(AuthStatuses) :
        r.status \in {200, 201} => nextTok <= MaxTokens}

IssueToken(reply) ==
    IF reply.transport = None /\ reply.status \in {200, 201}
    THEN nextTok + 1 ELSE nextTok

----------------------------------------------------------------------------
(* Actions. *)

\* the host starts a refresh cycle (the previous cycle's fetches have ended)
StartRefresh ==
    /\ refreshes < MaxCycles
    /\ \A i \in DOMAIN calls : calls[i].pc = "done"
    /\ authCall.pc # "posted"
    /\ authCall' = IdleAuthCall
    /\ refreshes' = refreshes + 1
    /\ calls' = [i \in 1..Len(ranges) |-> NewCall(ranges[i])]
    /\ lastRefresh' = AsyncUpdateData(data)
    /\ data' = HostStore(lastRefresh')
    /\ UNCHANGED <<configured, ranges, auth_token, session, nextTok,
                   directAuths, lastClose, gathered>>

\* the event loop runs a scheduled range fetch up to its first request
CallStart(i) ==
    /\ calls[i].pc = "new"
    /\ calls' = [calls EXCEPT ![i] =
                   Observe(@, StartCall(@, auth_token), NoReply,
                           auth_token, auth_token, nextTok)]
    /\ session' = GetSession(session)
    /\ UNCHANGED <<configured, ranges, auth_token, nextTok, refreshes,
                   lastRefresh, data, authCall, directAuths, lastClose,
                   gathered>>

\* the session after a step of a call: a request was sent unless the call ended
SessionAfter(c) == IF c.pc = "done" THEN session ELSE GetSession(session)

\* the reply to the POST of a lazy authenticate() arrives
LazyAuthReply(i) ==
    /\ calls[i].pc = "lazy_auth"
    /\ \E reply \in AuthReplies :
        LET c == OnLazyAuthReply(calls[i], auth_token, reply, nextTok)
            tok == Authenticate(auth_token, reply, nextTok).token
        IN /\ calls' = [calls EXCEPT ![i] =
                          Observe(@, c, reply, auth_token, tok, nextTok)]
           /\ auth_token' = tok
           /\ nextTok' = IssueToken(reply)
           /\ session' = SessionAfter(c)
    /\ UNCHANGED <<configured, ranges, refreshes, lastRefresh, data, authCall,
                   directAuths, lastClose, gathered>>

\* the reply to the first GET arrives
FirstGetReply(i) ==
    /\ calls[i].pc = "get1"
    /\ \E reply \in Replies(GetStatuses) :
        LET c == OnFirstGetReply(calls[i], reply)
        IN /\ calls' = [calls EXCEPT ![i] =
                          Observe(@, c, reply, auth_token, auth_token, nextTok)]
           /\ session' = SessionAfter(c)
    /\ UNCHANGED <<configured, ranges, auth_token, nextTok, refreshes,
                   lastRefresh, data, authCall, directAuths, lastClose,
                   gathered>>

\* the reply to the POST of the re-authentication arrives
ReauthReply(i) ==
    /\ calls[i].pc = "reauth"
    /\ \E reply \in AuthReplies :
        LET c == OnReauthReply(calls[i], auth_token, reply, nextTok)
            tok == Authenticate(auth_token, reply, nextTok).token
        IN /\ calls' = [calls EXCEPT ![i] =
                          Observe(@, c, reply, auth_token, tok, nextTok)]
           /\ auth_token' = tok
           /\ nextTok' = IssueToken(reply)
           /\ session' = SessionAfter(c)
    /\ UNCHANGED <<configured, ranges, refreshes, lastRefresh, data, authCall,
                   directAuths, lastClose, gathered>>

\* the reply to the retry GET arrives
RetryGetReply(i) ==
    /\ calls[i].pc = "get2"
    /\ \E reply \in Replies(GetStatuses) :
        LET c == OnRetryGetReply(calls[i], reply)
        IN /\ calls' = [calls EXCEPT ![i] =
                          Observe(@, c, reply, auth_token, auth_token, nextTok)]
           /\ session' = SessionAfter(c)
    /\ UNCHANGED <<configured, ranges, auth_token, nextTok, refreshes,
                   lastRefresh, data, authCall, directAuths, lastClose,
                   gathered>>

\* the host calls authenticate() itself (no fetch is running): the POST is sent
AuthCallStart ==
    /\ directAuths < MaxDirectAuth
    /\ authCall.pc # "posted"
    /\ \A i \in DOMAIN calls : calls[i].pc = "done"
    /\ directAuths' = directAuths + 1
    /\ authCall' = [IdleAuthCall EXCEPT !.pc = "posted", !.tokPre = auth_token]
    /\ session' = GetSession(session)
    /\ UNCHANGED <<configured, ranges, auth_token, nextTok, calls, refreshes,
                   lastRefresh, data, lastClose, gathered>>

\* ... and the reply arrives
AuthCallReply ==
    /\ authCall.pc = "posted"
    /\ \E reply \in AuthReplies :
        LET a == Authenticate(auth_token, reply, nextTok)
        IN /\ authCall' = [authCall EXCEPT
                             !.pc = "done", !.ret = a.ret, !.err = a.err,
                             !.tokEnd = a.token, !.status = reply.status,
                             !.transport = reply.transport,
                             !.issued = IF IssueToken(reply) # nextTok
                                        THEN nextTok ELSE NoToken]
           /\ auth_token' = a.token
           /\ nextTok' = IssueToken(reply)
    /\ UNCHANGED <<configured, ranges, session, calls, refreshes, lastRefresh,
                   data, directAuths, lastClose, gathered>>

\* the host calls close()
Close ==
    /\ session' = CloseSession(session).session
    /\ lastClose' = [called |-> TRUE, pre |-> session, post |-> session',
                     raised |-> CloseSession(session).raised]
    /\ UNCHANGED <<configured, ranges, auth_token, nextTok, calls, refreshes,
                   lastRefresh, data, authCall, directAuths, gathered>>

Next ==
    \/ StartRefresh
    \/ \E i \in DOMAIN calls :
          \/ CallStart(i)
          \/ LazyAuthReply(i)
          \/ FirstGetReply(i)
          \/ ReauthReply(i)
          \/ RetryGetReply(i)
    \/ AuthCallStart
    \/ AuthCallReply
    \/ Close

Spec == Init /\ [][Next]_vars

----------------------------------------------------------------------------
(* Sequential use of the client: each call is awaited before the next one  *)
(* starts (no two calls are suspended at a request at the same time).       *)

InFlight ==
    {i \in DOMAIN calls : calls[i].pc \notin {"new", "done"}}

NextSeq ==
    /\ Next
    /\ Cardinality(InFlight') <= 1

SpecSeq == Init /\ [][NextSeq]_vars

----------------------------------------------------------------------------
(* Construction of the coordinator for every configuration.                 *)

\* async_setup_entry(): a coordinator is built from the entry's range list
SetupEntry ==
    /\ configured' \in Configurations
    /\ ranges' = CoordinatorRanges(EntryRanges(configured'))
    /\ UNCHANGED <<auth_token, session, nextTok, calls, refreshes, lastRefresh,
                   data, authCall, directAuths, lastClose, gathered>>

InitCtor ==
    /\ configured \in Configurations
    /\ ranges = CoordinatorRanges(EntryRanges(configured))
    /\ auth_token = NoToken
    /\ session = "none"
    /\ nextTok = 1
    /\ calls = <<>>
    /\ refreshes = 0
    /\ lastRefresh = NoRefresh
    /\ data = NoData
    /\ authCall = IdleAuthCall
    /\ directAuths = 0
    /\ lastClose = NoClose
    /\ gathered = NoGathered

SpecCtor == InitCtor /\ [][SetupEntry]_vars

----------------------------------------------------------------------------
(* The merge applied to every combination of gathered responses.            *)

\* one response per range, in the order of the ranges
GatheredResults(n) ==
    IF n = 1 THEN {<<a>> : a \in PerfResults(1)}
    ELSE {<<a, b>> : a \in PerfResults(1), b \in PerfResults(2)}

InitMerge ==
    /\ configured \in RunConfigurations
    /\ ranges = CoordinatorRanges(EntryRanges(configured))
    /\ auth_token = NoToken
    /\ session = "none"
    /\ nextTok = 1
    /\ calls = <<>>
    /\ refreshes = 0
    /\ lastRefresh = NoRefresh
    /\ data = NoData
    /\ authCall = IdleAuthCall
    /\ directAuths = 0
    /\ lastClose = NoClose
    /\ \E us \in UserSettings, res \in GatheredResults(Len(ranges)) :
          gathered = [results |-> res, user_settings |-> us, stage |-> "gathered"]

\* the rest of _async_update_data() runs on the gathered responses, and the
\* host stores what it returns
Merge ==
    /\ gathered.stage = "gathered"
    /\ gathered' = [gathered EXCEPT !.stage = "merged"]
    /\ LET m == MergeData(ranges, gathered.results, gathered.user_settings)
       IN lastRefresh' = [result |-> m.result, err |-> m.err, cache |-> data,
                          value |-> m.value]
    /\ data' = HostStore(lastRefresh')
    /\ refreshes' = refreshes + 1
    /\ UNCHANGED <<configured, ranges, auth_token, session, nextTok, calls,
                   authCall, directAuths, lastClose>>

SpecMerge == InitMerge /\ [][Merge]_vars

----------------------------------------------------------------------------
(* Claims about the API client. *)

Calls == {calls[i] : i \in DOMAIN calls}

\* the call's re-authentication has completed successfully
ReauthSucceeded(c) == c.reauths >= 1 /\ c.pc \in {"get2", "done"} /\ c.hdr2 # NoToken

ApiErrorWithStatus(c, st) ==
    /\ c.pc = "done"
    /\ c.err.cls = "GhostfolioAPIError"
    /\ c.err.msg = "API request failed"
    /\ c.err.status = st

\* what C1 says of every call whatever the first 401 led to
C1_Bounds(c) ==
    /\ c.gets <= 2
    /\ c.reauths <= 1
    /\ (c.reauths = 1) = (c.st1 = 401)
    /\ c.gets = 2 => c.st1 = 401
    /\ c.st2 \notin {0, 200} => ApiErrorWithStatus(c, c.st2) /\ c.gets = 2
    /\ c.st1 \notin {0, 200, 401} =>
          ApiErrorWithStatus(c, c.st1) /\ c.reauths = 0 /\ c.gets = 1

\* C1 as stated: in every call of get_portfolio_performance a 401 on the
\* first GET triggers exactly one re-authentication and exactly one retry GET;
\* a retry answered non-200 ends the call with an API error; no call sends
\* more than two GETs; a first GET answered neither 200 nor 401 fails at once
\* with an API error, without re-authentication or retry.
C1_AsStated ==
    \A c \in Calls :
        /\ C1_Bounds(c)
        /\ (c.pc = "done" /\ c.st1 = 401) => c.reauths = 1 /\ c.gets = 2

\* C1 (amended): as C1, but the retry GET is sent exactly when the
\* re-authentication succeeded; a call whose re-authentication failed ends
\* after its one GET.
C1_RetryOnce ==
    \A c \in Calls :
        /\ C1_Bounds(c)
        /\ (c.pc = "done" /\ c.st1 = 401) =>
              /\ c.reauths = 1
              /\ c.gets = (IF ReauthSucceeded(c) THEN 2 ELSE 1)
              /\ ReauthSucceeded(c) = (c.issued # NoToken /\ c.issued > c.tokPre)

\* a call answered 401, re-authenticated, and answered 401 again: it ended
\* with an API error after two GETs
C1_Witness ==
    \E c \in Calls :
        /\ c.st1 = 401 /\ c.st2 = 401 /\ c.gets = 2 /\ c.reauths = 1
        /\ ApiErrorWithStatus(c, 401)


C3_Authenticate ==
    authCall.pc = "done" =>
        LET ok == authCall.transport = None /\ authCall.status \in {200, 201}
        IN /\ (authCall.err = NoErr) = ok
           /\ ok => /\ authCall.issued # NoToken
                    /\ authCall.ret = authCall.issued
                    /\ authCall.tokEnd = authCall.issued
           /\ (authCall.transport = None /\ ~ok) =>
                    /\ authCall.err = GhostfolioAuthError(authCall.status)
                    /\ authCall.ret = NoToken
                    /\ authCall.tokEnd = authCall.tokPre

\* authenticate() rejected with 403 while a token was held: the token is kept
C3_Witness ==
    /\ authCall.pc = "done" /\ authCall.status = 403
    /\ authCall.tokPre # NoToken /\ auth_token = authCall.tokPre

\* C7: close() never raises; after it returns the client holds no open
\* session; on a client whose session is closed already, or that never had
\* one, it changes nothing.
C7_CloseIdempotent ==
    lastClose.called =>
        /\ ~lastClose.raised
        /\ lastClose.post \in {"none", "closed"}
        /\ lastClose.pre # "open" => lastClose.post = lastClose.pre

\* close() on a client whose session was closed already
C7_Witness ==
    lastClose.called /\ lastClose.pre = "closed" /\ session = "closed"

ConnectionError(e) ==
    e.cls = "GhostfolioAPIError" /\ e.msg = "Connection error"

\* C8: every call of authenticate() or get_portfolio_performance() that ends
\* on a transport failure (DNS, TLS or the request timeout) raises a
\* Connection error, the API error type wrapping the transport exception.
C8_TransportWrapped ==
    /\ \A c \in Calls :
          (c.pc = "done" /\ c.transport # None) => ConnectionError(c.err)
    /\ (authCall.pc = "done" /\ authCall.transport # None) =>
          ConnectionError(authCall.err)

\* the tokens the auth endpoint has issued: each was returned by an
\* authentication exchange that completed successfully
IssuedTokens == 1..(nextTok - 1)

\* the range fetches that send a performance GET in this step
SendsGet ==
    {i \in DOMAIN calls \cap DOMAIN calls' : calls'[i].gets > calls[i].gets}

\* C11: under every interleaving of the range fetches that share the client,
\* every performance GET is sent with a bearer token that an authentication
\* exchange completed by then had returned, and the client holds a token
\* when the GET is sent.  The stored token is only ever replaced by an issued
\* token and never cleared, so this does not depend on the moment at which a
\* resumed fetch reads it.
C11_GetWithIssuedToken ==
    [][/\ \A i \in SendsGet :
             /\ calls'[i].headers # NoToken
             /\ calls'[i].headers \in IssuedTokens'
             /\ auth_token' # NoToken
       /\ auth_token' \in {NoToken} \cup IssuedTokens'
       /\ auth_token # NoToken => auth_token' # NoToken]_vars

\* two fetches that both started with no token held and were both answered
\* 401: one has sent its retry while the other is still re-authenticating
C11_Witness ==
    /\ Len(calls) = 2
    /\ calls[1].lazy = 1 /\ calls[2].lazy = 1
    /\ calls[1].pc = "get2" /\ calls[2].pc = "reauth"
    /\ calls[1].hdr2 \in IssuedTokens
    /\ calls[1].hdr1 # calls[2].hdr1

\* the range fetches whose authentication exchange is answered in this step
\* with a status other than 200 and 201
AuthRejectedNow ==
    {i \in DOMAIN calls \cap DOMAIN calls' :
        /\ calls[i].pc \in {"lazy_auth", "reauth"}
        /\ calls'[i] # calls[i]
        /\ calls'[i].rejected}

\* C12: when an authentication exchange inside get_portfolio_performance is
\* rejected (the lazy one or the one after a 401), the call ends there with
\* the Authentication error carrying the status, it sends no further GET (none
\* at all in the lazy case, only the first one in the 401 case), and the
\* exchange leaves the client's stored token as it was.
C12_AuthRejected ==
    [][/\ \A i \in AuthRejectedNow :
             /\ calls'[i].pc = "done"
             /\ \E st \in AuthStatuses \ {200, 201} :
                   calls'[i].err = GhostfolioAuthError(st)
             /\ calls'[i].gets = calls[i].gets
             /\ auth_token' = auth_token
       /\ \A i \in DOMAIN calls' :
             calls'[i].rejected =>
                /\ calls'[i].pc = "done"
                /\ calls'[i].err.cls = "GhostfolioAuthError"
                /\ calls'[i].gets = calls'[i].reauths]_vars

\* a fetch that held a token, was answered 401 and whose re-authentication
\* was rejected: it ended with the Authentication error after its one GET and
\* the client still holds the token of that GET
C12_Witness ==
    \E c \in Calls :
        /\ c.rejected /\ c.reauths = 1 /\ c.lazy = 0 /\ c.gets = 1
        /\ c.err = GhostfolioAuthError(403)
        /\ c.hdr1 # NoToken /\ auth_token = c.hdr1

----------------------------------------------------------------------------
(* Claims about the coordinator. *)

RangeSet == {ranges[i] : i \in 1..Len(ranges)}

C5_RefreshSucceeds ==
    (refreshes > 0 /\ \A c \in Calls : c.pc = "done" /\ c.ret \in Bodies) =>
        /\ lastRefresh.result = "success"
        /\ data.valid
        /\ DOMAIN data.performance = RangeSet

\* the list the coordinator deduplicates: the configured one, or the default
ConfiguredOrDefault ==
    IF configured.present /\ configured.val # <<>>
    THEN configured.val ELSE <<"max">>

FirstIndex(s, x) ==
    CHOOSE k \in 1..Len(s) : s[k] = x /\ \A m \in 1..(k - 1) : s[m] # x

\* C6: the coordinator's range list is non-empty, has no repetition, has
\* exactly the identifiers of the configured list ([max] when that is empty
\* or missing), in the order of their first occurrences.
C6_Ranges ==
    LET src == ConfiguredOrDefault
    IN /\ Len(ranges) >= 1
       /\ \A i, j \in 1..Len(ranges) : i # j => ranges[i] # ranges[j]
       /\ RangeSet = {src[k] : k \in 1..Len(src)}
       /\ \A i, j \in 1..Len(ranges) :
             i < j => FirstIndex(src, ranges[i]) < FirstIndex(src, ranges[j])

\* [max, 1y, max] became [max, 1y]
C6_Witness ==
    /\ configured.present /\ configured.val = <<"max", "1y", "max">>
    /\ ranges = <<"max", "1y">>

\* the merge has run and returned
Merged == gathered.stage = "merged" /\ lastRefresh.result = "success"

\* the currency nested in the user-settings response (None when absent)
SettingsCur ==
    LET us == gathered.user_settings
    IN IF us.isDict /\ us.settings = "dict" THEN us.cur ELSE None

\* the currency field of the snapshot of the i-th range (None when absent)
SnapshotCur(i) ==
    LET r == gathered.results[i]
    IN IF ~r.isDict THEN None
       ELSE IF r.perf = "dict" THEN r.perfCur ELSE r.cur

\* the positions of the ranges that have a snapshot in the cache
WithSnapshot == {i \in 1..Len(ranges) : gathered.results[i].isDict}

\* the least element of a non-empty set of positions
First(I) == CHOOSE i \in I : \A j \in I : i <= j

MergeKeysCorrect ==
    Merged =>
        /\ DOMAIN data.performance = {ranges[i] : i \in WithSnapshot}
        /\ \A i \in WithSnapshot : data.performance[ranges[i]].id = i

\* C10: when a refresh has ended, with success or with failure, every fetch
\* of its cycle has completed or failed: none is still in flight.
C10_FanIn ==
    lastRefresh.result \in {"success", "failed"} =>
        \A c \in Calls : c.pc = "done"

====
